---- MODULE Spec2Model ----
(***************************************************************************)
(* A model of repo_checker: the config-driven engine runner (run_engine),  *)
(* the shared sliding-window throttle, the per-name fold (check_one) and   *)
(* the thread-pool batch driver (main).                                    *)
(*                                                                         *)
(* Strings are sequences of code points, so that lower(), replace() and    *)
(* str() are computed and not assumed.  Time is counted in ticks of        *)
(* 0.05 s, the epsilon of the throttle's sleep.                            *)
(***************************************************************************)
EXTENDS Integers, Sequences, FiniteSets, TLC

----------------------------------------------------------------------------
(* Strings                                                                 *)

\* str.lower() on ASCII: 'A'..'Z' (65..90) map to 'a'..'z'.
Lower(s) == [i \in 1..Len(s) |-> IF s[i] \in 65..90 THEN s[i] + 32 ELSE s[i]]

\* s.replace("_", "-"): '_' is 95, '-' is 45.
UndersToDashes(s) == [i \in 1..Len(s) |-> IF s[i] = 95 THEN 45 ELSE s[i]]

\* Python's order on str: lexicographic on code points, a proper prefix first.
RECURSIVE StrLess(_, _)
StrLess(a, b) ==
  IF b = <<>> THEN FALSE
  ELSE IF a = <<>> THEN TRUE
  ELSE IF Head(a) # Head(b) THEN Head(a) < Head(b)
  ELSE StrLess(Tail(a), Tail(b))

\* The decimal digits of a natural number, as str(int) writes them.
RECURSIVE Digits(_)
Digits(n) == IF n < 10 THEN <<48 + n>> ELSE Append(Digits(n \div 10), 48 + (n % 10))

\* The first k elements of a sequence: seq[:k].
Take(seq, k) == SubSeq(seq, 1, IF Len(seq) < k THEN Len(seq) ELSE k)

----------------------------------------------------------------------------
(* JSON documents, as json.loads builds them.  Every node has the same     *)
(* fields; t tells which of them is meant.                                 *)

JStr(s)      == [t |-> "str",  s |-> s,    n |-> 0, items |-> <<>>, ents |-> <<>>]
JNum(n)      == [t |-> "num",  s |-> <<>>, n |-> n, items |-> <<>>, ents |-> <<>>]
JNone        == [t |-> "none", s |-> <<>>, n |-> 0, items |-> <<>>, ents |-> <<>>]
JList(items) == [t |-> "list", s |-> <<>>, n |-> 0, items |-> items, ents |-> <<>>]
\* A dict is its entries <<[k, v], ...>> in insertion order, keys distinct.
JDict(ents)  == [t |-> "dict", s |-> <<>>, n |-> 0, items |-> <<>>, ents |-> ents]

IsListOrDict(d) == d.t \in {"list", "dict"}

HasKey(node, key) == \E i \in 1..Len(node.ents) : node.ents[i].k = key
GetKey(node, key) ==
  node.ents[CHOOSE i \in 1..Len(node.ents) : node.ents[i].k = key].v

\* str(v) for the scalars a document holds; str(None) is "None".
Str(v) ==
  CASE v.t = "str"  -> v.s
    [] v.t = "num"  -> Digits(v.n)
    [] v.t = "none" -> <<78, 111, 110, 101>>

\* Python truthiness: "", 0, None, [] and {} are falsy.
Truthy(v) ==
  CASE v.t = "str"  -> v.s # <<>>
    [] v.t = "num"  -> v.n # 0
    [] v.t = "none" -> FALSE
    [] v.t = "list" -> v.items # <<>>
    [] v.t = "dict" -> v.ents # <<>>

\* int(v): [ok, n]; ok is FALSE where int() raises (ValueError, TypeError).
RECURSIVE ParseDigits(_, _)
ParseDigits(s, acc) ==
  IF s = <<>> THEN acc ELSE ParseDigits(Tail(s), 10 * acc + (Head(s) - 48))

IntOf(v) ==
  CASE v.t = "num" -> [ok |-> TRUE, n |-> v.n]
    [] v.t = "str" ->
         IF v.s # <<>> /\ \A i \in 1..Len(v.s) : v.s[i] \in 48..57
         THEN [ok |-> TRUE, n |-> ParseDigits(v.s, 0)]
         ELSE [ok |-> FALSE, n |-> 0]
    [] OTHER -> [ok |-> FALSE, n |-> 0]

----------------------------------------------------------------------------
(* _json_read.  A path is held split: root is the path "$"; otherwise      *)
(* parts are its segments, "key[*]" as [key, star |-> TRUE], "[*]" as the  *)
(* starred segment with the empty key, "key" as [key, star |-> FALSE].     *)

Seg(key, star) == [key |-> key, star |-> star]
PathOf(parts)  == [set |-> TRUE, root |-> FALSE, parts |-> parts]
RootPath       == [set |-> TRUE, root |-> TRUE, parts |-> <<>>]
\* A path key that is absent from the configuration (or empty).
NoPath         == [set |-> FALSE, root |-> FALSE, parts |-> <<>>]

\* What one node contributes to nxt under segment p.
ReadNode(node, p) ==
  IF p.star /\ p.key = "" THEN
    IF node.t = "list" THEN node.items ELSE <<>>
  ELSE IF p.star THEN
    IF node.t = "dict" /\ HasKey(node, p.key) /\ GetKey(node, p.key).t = "list"
    THEN GetKey(node, p.key).items ELSE <<>>
  ELSE
    IF node.t = "dict" /\ HasKey(node, p.key) THEN <<GetKey(node, p.key)>> ELSE <<>>

RECURSIVE ReadLevel(_, _)
ReadLevel(cur, p) ==
  IF cur = <<>> THEN <<>> ELSE ReadNode(Head(cur), p) \o ReadLevel(Tail(cur), p)

RECURSIVE ReadParts(_, _)
ReadParts(cur, parts) ==
  IF parts = <<>> THEN cur ELSE ReadParts(ReadLevel(cur, Head(parts)), Tail(parts))

JsonRead(doc, path) ==
  IF path.root THEN <<doc>> ELSE ReadParts(<<doc>>, path.parts)

----------------------------------------------------------------------------
(* _norm                                                                   *)

\* normalize: the two flags of an exists rule or of a criterion.
Normalize(lower, dashes) == [to_lower |-> lower, dashes |-> dashes]

NormStr(s, nz) ==
  LET d == IF nz.dashes THEN UndersToDashes(s) ELSE s
  IN  IF nz.to_lower THEN Lower(d) ELSE d

\* _norm of a document value: None becomes "", anything else str(v).
Norm(v, nz) == NormStr(IF v.t = "none" THEN <<>> ELSE Str(v), nz)

----------------------------------------------------------------------------
(* Engine descriptors, as load_engines returns them (dicts read with       *)
(* .get): an absent key is held as a sentinel of the field's own shape.    *)

\* "code" / "max_per_minute" absent from the descriptor.
Absent == -1

\* exists: kind "none" is an absent or empty rule.
ExistsRule(kind, code, path, nz, has_where, where) ==
  [kind |-> kind, code |-> code, path |-> path, normalize |-> nz,
   has_where |-> has_where, where |-> where]
NoExists == ExistsRule("none", Absent, NoPath, Normalize(FALSE, FALSE), FALSE, <<>>)

\* equals: "{q}" (the query), a literal, or no "equals" key at all.
EqQuery   == [t |-> "q",       s |-> <<>>]
EqLit(s)  == [t |-> "lit",     s |-> s]
EqMissing == [t |-> "missing", s |-> <<>>]
Crit(path, equals, nz) == [path |-> path, equals |-> equals, normalize |-> nz]

ResultRule(count_path, exact_any_path, urls_path) ==
  [count_path |-> count_path, exact_any_path |-> exact_any_path, urls_path |-> urls_path]
NoResult == ResultRule(NoPath, NoPath, NoPath)

\* throttle: on is the truthiness of the "throttle" dict; env_bypass "" when
\* the dict names no variable.
Throttle(on, max_per_minute, env_bypass) ==
  [on |-> on, max_per_minute |-> max_per_minute, env_bypass |-> env_bypass]
NoThrottle == Throttle(FALSE, Absent, "")

Engine(id, th, ex, res) == [id |-> id, throttle |-> th, exists |-> ex, result |-> res]

----------------------------------------------------------------------------
(* run_engine after the fetch (lines 97-149): a pure function of the       *)
(* descriptor, the query and the fetcher's (status, data).                 *)

DEFAULT_CODE == 200
MAX_URLS == 10

\* The value a criterion is compared with: `tgt or ""`, then _norm.
Target(c, query) ==
  NormStr(IF c.equals.t = "q" THEN query ELSE c.equals.s, c.normalize)

\* val(col, i) with i counted from 0; None past the end of the column.
Val(col, i) == IF i < Len(col) THEN col[i + 1] ELSE JNone

\* The inner loop: every criterion's value at index i equals its target.
RowMatches(crits, cols, query, i) ==
  \A k \in 1..Len(crits) :
    Norm(Val(cols[k], i), crits[k].normalize) = Target(crits[k], query)

\* The outer loop from index i: the first fully matching index, or -1.
RECURSIVE FirstMatch(_, _, _, _, _)
FirstMatch(crits, cols, query, i, maxlen) ==
  IF i >= maxlen THEN -1
  ELSE IF RowMatches(crits, cols, query, i) THEN i
  ELSE FirstMatch(crits, cols, query, i + 1, maxlen)

MaxLen(cols) ==
  IF cols = <<>> THEN 0
  ELSE CHOOSE m \in {Len(cols[k]) : k \in 1..Len(cols)} :
         \A k \in 1..Len(cols) : Len(cols[k]) <= m

Columns(crits, data) == [k \in 1..Len(crits) |-> JsonRead(data, crits[k].path)]

AnyMatch(ex, query, data) ==
  LET cols == Columns(ex.where, data)
  IN  FirstMatch(ex.where, cols, query, 0, MaxLen(cols)) >= 0

AnyEq(ex, query, data) ==
  LET vals == JsonRead(data, ex.path)
      qn   == NormStr(query, ex.normalize)
  IN  \E i \in 1..Len(vals) : Norm(vals[i], ex.normalize) = qn

\* ex["path"] / ex["where"] on a rule that lacks the key: KeyError.
ExistsRaises(ex, data) ==
  \/ ex.kind = "json_any_eq"    /\ IsListOrDict(data) /\ ~ex.path.set
  \/ ex.kind = "json_any_match" /\ IsListOrDict(data) /\ ~ex.has_where

Exists(ex, query, status, data) ==
  IF ex.kind = "status_is"
    THEN status = (IF ex.code = Absent THEN DEFAULT_CODE ELSE ex.code)
  ELSE IF ex.kind = "json_any_eq" /\ IsListOrDict(data) THEN AnyEq(ex, query, data)
  ELSE IF ex.kind = "json_any_match" /\ IsListOrDict(data) THEN AnyMatch(ex, query, data)
  ELSE FALSE

Count(res, data) ==
  IF res.count_path.set /\ IsListOrDict(data)
  THEN LET vals == JsonRead(data, res.count_path)
       IN  IF vals # <<>> /\ IntOf(vals[1]).ok THEN IntOf(vals[1]).n ELSE 0
  ELSE 0

Exact(res, query, data) ==
  IF res.exact_any_path.set /\ IsListOrDict(data)
  THEN LET names == JsonRead(data, res.exact_any_path)
       IN  \E i \in 1..Len(names) : Lower(Str(names[i])) = Lower(query)
  ELSE FALSE

\* A bug Urls could have: the slice keeps one entry too many.
UrlsOneMore(res, data) ==
  IF res.urls_path.set /\ IsListOrDict(data)
  THEN LET all == JsonRead(data, res.urls_path)
           kept == SelectSeq(all, Truthy)
       IN  [i \in 1..(IF Len(kept) < MAX_URLS + 1 THEN Len(kept) ELSE MAX_URLS + 1) |->
              Str(kept[i])]
  ELSE <<>>

\* [str(u) for u in vals if u]
RECURSIVE StrTruthy(_)
StrTruthy(vals) ==
  IF vals = <<>> THEN <<>>
  ELSE IF Truthy(Head(vals)) THEN <<Str(Head(vals))>> \o StrTruthy(Tail(vals))
  ELSE StrTruthy(Tail(vals))

Urls(res, data) ==
  IF res.urls_path.set /\ IsListOrDict(data)
  THEN Take(StrTruthy(JsonRead(data, res.urls_path)), MAX_URLS)
  ELSE <<>>

\* The outcome dict; raised tells that run_engine left by an exception
\* instead of returning it.
Out(raised, exists, count, exact, urls, status) ==
  [raised |-> raised, exists |-> exists, count |-> count, exact |-> exact,
   urls |-> urls, status |-> status]

Outcome(engine, query, status, data) ==
  IF ExistsRaises(engine.exists, data)
  THEN Out(TRUE, FALSE, 0, FALSE, <<>>, status)
  ELSE Out(FALSE,
           Exists(engine.exists, query, status, data),
           Count(engine.result, data),
           Exact(engine.result, query, data),
           Urls(engine.result, data),
           status)

----------------------------------------------------------------------------
(* check_one: the result record and the fold of one engine's outcome.      *)

NewResult(name) ==
  [name |-> name, pypi |-> FALSE, conda_forge |-> FALSE, anaconda_any |-> FALSE,
   github_count |-> 0, github_exact |-> FALSE, github_top_urls |-> <<>>]

\* A bug Fold could have: an id it does not know falls into the pypi branch.
FoldUnknownId(out, eid, r) ==
  IF eid = "conda_forge" THEN [out EXCEPT !.conda_forge = r.exists]
  ELSE IF eid = "anaconda_any" THEN [out EXCEPT !.anaconda_any = r.exists]
  ELSE IF eid = "github" THEN
    [out EXCEPT !.github_count = r.count, !.github_exact = r.exact,
                !.github_top_urls = r.urls]
  ELSE [out EXCEPT !.pypi = r.exists]

Fold(out, eid, r) ==
  IF eid = "pypi" THEN [out EXCEPT !.pypi = r.exists]
  ELSE IF eid = "conda_forge" THEN [out EXCEPT !.conda_forge = r.exists]
  ELSE IF eid = "anaconda_any" THEN [out EXCEPT !.anaconda_any = r.exists]
  ELSE IF eid = "github" THEN
    [out EXCEPT !.github_count = r.count, !.github_exact = r.exact,
                !.github_top_urls = r.urls]
  ELSE out

----------------------------------------------------------------------------
(* read_names: the de-duplication that keeps the first occurrence.         *)

RECURSIVE DedupFrom(_, _)
DedupFrom(rows, out) ==
  IF rows = <<>> THEN out
  ELSE IF \E i \in 1..Len(out) : out[i] = Head(rows)
       THEN DedupFrom(Tail(rows), out)
       ELSE DedupFrom(Tail(rows), Append(out, Head(rows)))

Dedup(rows) == DedupFrom(rows, <<>>)

----------------------------------------------------------------------------
(* results.sort(key=lambda d: d["name"].lower()): list.sort is stable, so  *)
(* a record goes after every record whose key is not greater.              *)

SortKey(r) == Lower(r.name)

RECURSIVE InsertSorted(_, _)
InsertSorted(sorted, r) ==
  IF sorted = <<>> THEN <<r>>
  ELSE IF StrLess(SortKey(r), SortKey(Head(sorted))) THEN <<r>> \o sorted
  ELSE <<Head(sorted)>> \o InsertSorted(Tail(sorted), r)

RECURSIVE SortFrom(_, _)
SortFrom(rs, sorted) ==
  IF rs = <<>> THEN sorted ELSE SortFrom(Tail(rs), InsertSorted(sorted, Head(rs)))

SortResults(rs) == SortFrom(rs, <<>>)

----------------------------------------------------------------------------
(* throttle: the window, the sleep and the eviction.                       *)

\* One tick is 0.05 s: there are 20 of them in a second.
SEC == 20
EPS == 1
WINDOW == 60 * SEC
DEFAULT_MAX_PER_MINUTE == 9

\* while _TH_TIMES and now - _TH_TIMES[0] > 60: _TH_TIMES.popleft()
RECURSIVE Evict(_, _)
Evict(times, now) ==
  IF times # <<>> /\ now - Head(times) > WINDOW THEN Evict(Tail(times), now) ELSE times

\* A bug SleepFor could have: the epsilon is taken off, not added.
SleepForShort(now, oldest) ==
  LET d == WINDOW - (now - oldest) - EPS IN IF d > 0 THEN d ELSE 0

\* max(0.0, 60 - (now - _TH_TIMES[0]) + 0.05)
SleepFor(now, oldest) ==
  LET d == WINDOW - (now - oldest) + EPS IN IF d > 0 THEN d ELSE 0

\* int(th.get("max_per_minute", 9))
LimitOf(th) ==
  IF th.max_per_minute = Absent THEN DEFAULT_MAX_PER_MINUTE ELSE th.max_per_minute

\* os.getenv(name): [set, val]; a name the environment does not hold is unset.
UnsetVar == [set |-> FALSE, val |-> <<>>]
GetEnv(environ, name) == IF name \in DOMAIN environ THEN environ[name] ELSE UnsetVar

\* `th and not os.getenv(th.get("env_bypass", ""))`: None and "" are falsy.
Throttled(th, environ) ==
  th.on /\ ~(GetEnv(environ, th.env_bypass).set /\ GetEnv(environ, th.env_bypass).val # <<>>)

----------------------------------------------------------------------------
(* The inputs of a run: the rows of the names file, the engines of the     *)
(* configuration, the environment, and what the network answers.           *)

NumWorkers == 2
MaxTicks == 1

Workers == 1..NumWorkers

\* "a", "A", "B"
NameLowerA == <<97>>
NameUpperA == <<65>>
NameUpperB == <<66>>

RowLists ==
  { <<>>,
    <<NameLowerA, NameUpperA>>,
    <<NameUpperB, NameLowerA, NameUpperB>> }

BYPASS_VAR == "GITHUB_TOKEN"

\* The bypass variable: unset, set to "", set to "1".
Envs ==
  { [v \in {BYPASS_VAR} |-> UnsetVar],
    [v \in {BYPASS_VAR} |-> [set |-> TRUE, val |-> <<>>]],
    [v \in {BYPASS_VAR} |-> [set |-> TRUE, val |-> <<49>>]] }

ItemsName    == PathOf(<<Seg("items", TRUE), Seg("name", FALSE)>>)
ItemsOwner   == PathOf(<<Seg("items", TRUE), Seg("owner", FALSE)>>)
ItemsUrl     == PathOf(<<Seg("items", TRUE), Seg("html_url", FALSE)>>)
TotalCount   == PathOf(<<Seg("total_count", FALSE)>>)
GithubResult == ResultRule(TotalCount, ItemsName, ItemsUrl)
StatusIs(code) ==
  ExistsRule("status_is", code, NoPath, Normalize(FALSE, FALSE), FALSE, <<>>)
AnyEqRule(path, nz) == ExistsRule("json_any_eq", Absent, path, nz, FALSE, <<>>)
AnyMatchRule(where) ==
  ExistsRule("json_any_match", Absent, NoPath, Normalize(FALSE, FALSE), TRUE, where)

\* The engines that configurations are made of: an unthrottled status
\* engine; a github engine whose throttle leaves max_per_minute out and names
\* a bypass variable; throttled engines of limits 1 and 2, one of them of an
\* id that check_one does not know; an engine of limit 0.
Pypi   == Engine("pypi", NoThrottle, StatusIs(200), NoResult)
Github == Engine("github", Throttle(TRUE, Absent, BYPASS_VAR), NoExists, GithubResult)
Gitlab == Engine("gitlab", Throttle(TRUE, 1, ""), StatusIs(Absent), NoResult)
Conda  == Engine("conda_forge", Throttle(TRUE, 2, ""),
                 AnyEqRule(ItemsName, Normalize(TRUE, TRUE)), NoResult)
Anaconda == Engine("anaconda_any", Throttle(TRUE, 2, ""), StatusIs(404), NoResult)
Zero   == Engine("anaconda_any", Throttle(TRUE, 0, ""), StatusIs(200), NoResult)

\* The configurations: lists of engines of distinct ids.
EngineLists ==
  { <<>>,
    <<Pypi, Github>>,
    <<Gitlab, Pypi>>,
    <<Conda, Anaconda>>,
    <<Conda, Gitlab>>,
    <<Pypi, Zero>> }

Response(status, data) == [status |-> status, data |-> data]
\* http_json's (0, None) on URLError or any other exception of urlopen.
TransportFailure == Response(0, JNone)

Entry(k, v) == [k |-> k, v |-> v]
FoundDoc ==
  JDict(<<Entry("total_count", JNum(2)),
          Entry("items", JList(<<JDict(<<Entry("name", JStr(NameLowerA)),
                                         Entry("html_url", JStr(<<117>>))>>)>>))>>)

Responses == { TransportFailure, Response(200, FoundDoc) }

----------------------------------------------------------------------------
(* The state.                                                              *)

VARIABLES
  rows,      \* the names file's rows, comments and blanks dropped
  engines,   \* load_engines' list
  environ,   \* os.environ
  mainpc,    \* where main is
  names,     \* read_names' list
  queue,     \* the executor's work queue: tasks submitted and not taken
  futs,      \* per task: [st, res], st in pending / done / raised
  consumed,  \* the futures as_completed has yielded
  results,   \* main's results list
  output,    \* what write_results wrote
  pc,        \* per worker thread: where it is
  task,      \* per worker: the task (index of names) it runs, 0 for none
  eidx,      \* per worker: the index of check_one's current engine
  out,       \* per worker: check_one's out
  now,       \* per worker: throttle's now
  wake,      \* per worker: when throttle's sleep ends
  lim,       \* per worker: throttle's max_per_minute
  TH_LOCK,   \* the thread holding _TH_LOCK, 0 for none
  TH_TIMES,  \* _TH_TIMES
  clock,     \* time.time()
  ticks,     \* how many times the clock was advanced from outside
  log,       \* history: the throttle calls that recorded, in order
  evals,     \* history: per task, the engines run_engine was called with
  u_engine, u_query, u_resp, u_pc, u_out, u_res  \* one call of run_engine

progvars ==
  <<rows, engines, environ, mainpc, names, queue, futs, consumed, results, output,
    pc, task, eidx, out, now, wake, lim, TH_LOCK, TH_TIMES, clock, ticks, log, evals>>
unitvars == <<u_engine, u_query, u_resp, u_pc, u_out, u_res>>
vars == <<progvars, unitvars>>

NoOut == Out(FALSE, FALSE, 0, FALSE, <<>>, 0)

UnitIdle ==
  /\ u_engine = Engine("", NoThrottle, NoExists, NoResult)
  /\ u_query = <<>>
  /\ u_resp = TransportFailure
  /\ u_pc = "off"
  /\ u_out = NoOut
  /\ u_res = NewResult(<<>>)

ProgStart ==
  /\ mainpc = "start"
  /\ names = <<>>
  /\ queue = <<>>
  /\ futs = <<>>
  /\ consumed = {}
  /\ results = <<>>
  /\ output = <<>>
  /\ pc = [w \in Workers |-> "idle"]
  /\ task = [w \in Workers |-> 0]
  /\ eidx = [w \in Workers |-> 0]
  /\ out = [w \in Workers |-> NewResult(<<>>)]
  /\ now = [w \in Workers |-> 0]
  /\ wake = [w \in Workers |-> 0]
  /\ lim = [w \in Workers |-> 0]
  /\ TH_LOCK = 0
  /\ TH_TIMES = <<>>
  /\ clock = 0
  /\ ticks = 0
  /\ log = <<>>
  /\ evals = <<>>

\* Whether a configuration reads the bypass variable at all.
NamesBypass(es) == \E i \in 1..Len(es) : es[i].throttle.env_bypass = BYPASS_VAR

\* The environment is varied for the configurations that read it.
Init ==
  /\ rows \in RowLists
  /\ engines \in EngineLists
  /\ environ \in IF NamesBypass(engines) THEN Envs ELSE {[v \in {BYPASS_VAR} |-> UnsetVar]}
  /\ ProgStart
  /\ UnitIdle

----------------------------------------------------------------------------
(* main, up to the dispatch (lines 216-224).                               *)

Pending(name) == [st |-> "pending", res |-> NewResult(name)]

MainStart ==
  /\ mainpc = "start"
  /\ names' = Dedup(rows)
  /\ mainpc' = IF names' = <<>> THEN "exit2" ELSE "collect"
  /\ queue' = [i \in 1..Len(names') |-> i]
  /\ futs' = [i \in 1..Len(names') |-> Pending(names'[i])]
  /\ evals' = [i \in 1..Len(names') |-> <<>>]
  /\ UNCHANGED <<rows, engines, environ, consumed, results, output, pc, task, eidx,
                 out, now, wake, lim, TH_LOCK, TH_TIMES, clock, ticks, log, unitvars>>

----------------------------------------------------------------------------
(* A worker thread of the pool running check_one.                          *)

\* The future of worker w's task ends, with a result or with an exception,
\* and the thread goes back to the work queue.
Finish(w, st) ==
  /\ futs' = [futs EXCEPT ![task[w]] = [st |-> st, res |-> out[w]]]
  /\ pc' = [pc EXCEPT ![w] = "idle"]
  /\ task' = [task EXCEPT ![w] = 0]

\* The pool's threads are alike: of the idle ones, the first takes the task.
TakeTask(w) ==
  /\ pc[w] = "idle"
  /\ \A v \in 1..(w - 1) : pc[v] # "idle"
  /\ queue # <<>>
  /\ task' = [task EXCEPT ![w] = Head(queue)]
  /\ queue' = Tail(queue)
  /\ out' = [out EXCEPT ![w] = NewResult(names[Head(queue)])]
  /\ eidx' = [eidx EXCEPT ![w] = 1]
  /\ pc' = [pc EXCEPT ![w] = "loop"]
  /\ UNCHANGED <<rows, engines, environ, mainpc, names, futs, consumed, results,
                 output, now, wake, lim, TH_LOCK, TH_TIMES, clock, ticks, log, evals,
                 unitvars>>

\* run_engine, lines 89-93: the request is built and the throttle decided.
EngineBegin(w) ==
  /\ pc[w] = "loop"
  /\ eidx[w] <= Len(engines)
  /\ LET th == engines[eidx[w]].throttle
     IN  /\ pc' = [pc EXCEPT ![w] = IF Throttled(th, environ) THEN "th_lock" ELSE "fetch"]
         /\ lim' = [lim EXCEPT ![w] = IF Throttled(th, environ) THEN LimitOf(th) ELSE @]
  /\ evals' = [evals EXCEPT ![task[w]] = Append(@, eidx[w])]
  /\ UNCHANGED <<rows, engines, environ, mainpc, names, queue, futs, consumed, results,
                 output, task, eidx, out, now, wake, TH_LOCK, TH_TIMES, clock, ticks,
                 log, unitvars>>

\* throttle, lines 76-81: the lock is taken, now is read, the old entries are
\* evicted and the sleep is decided.  _TH_TIMES[0] on an empty deque raises
\* IndexError, which leaves the with block (the lock is released) and
\* run_engine and check_one with it.
ThrottleEnter(w) ==
  /\ pc[w] = "th_lock"
  /\ TH_LOCK = 0
  /\ LET kept == Evict(TH_TIMES, clock)
     IN  /\ TH_TIMES' = kept
         /\ now' = [now EXCEPT ![w] = clock]
         /\ IF Len(kept) >= lim[w] /\ kept = <<>>
            THEN /\ Finish(w, "raised")
                 /\ UNCHANGED <<TH_LOCK, wake>>
            ELSE /\ TH_LOCK' = w
                 /\ IF Len(kept) >= lim[w]
                    THEN /\ wake' = [wake EXCEPT ![w] = clock + SleepFor(clock, Head(kept))]
                         /\ pc' = [pc EXCEPT ![w] = "th_sleep"]
                    ELSE /\ wake' = [wake EXCEPT ![w] = 0]
                         /\ pc' = [pc EXCEPT ![w] = "th_record"]
                 /\ UNCHANGED <<futs, task>>
  /\ UNCHANGED <<rows, engines, environ, mainpc, names, queue, consumed, results,
                 output, eidx, out, lim, clock, ticks, log, evals, unitvars>>

\* time.sleep returns: no earlier than the end of the sleep.
ThrottleWake(w) ==
  /\ pc[w] = "th_sleep"
  /\ clock' = IF clock < wake[w] THEN wake[w] ELSE clock
  /\ pc' = [pc EXCEPT ![w] = "th_record"]
  /\ UNCHANGED <<rows, engines, environ, mainpc, names, queue, futs, consumed, results,
                 output, task, eidx, out, now, wake, lim, TH_LOCK, TH_TIMES, ticks,
                 log, evals, unitvars>>

LogEntry(w) ==
  [task |-> task[w], eidx |-> eidx[w], limit |-> lim[w], now |-> now[w],
   seen |-> Len(TH_TIMES), slept |-> wake[w] # 0, ts |-> clock]

\* throttle, line 82: the timestamp is recorded and the lock released.
ThrottleRecord(w) ==
  /\ pc[w] = "th_record"
  /\ TH_TIMES' = Append(TH_TIMES, clock)
  /\ TH_LOCK' = 0
  /\ log' = Append(log, LogEntry(w))
  /\ wake' = [wake EXCEPT ![w] = 0]
  /\ pc' = [pc EXCEPT ![w] = "fetch"]
  /\ UNCHANGED <<rows, engines, environ, mainpc, names, queue, futs, consumed, results,
                 output, task, eidx, out, now, lim, clock, ticks, evals, unitvars>>

\* run_engine, lines 95-149, and check_one's fold, lines 176-186: the fetch
\* answers, the outcome is computed and folded into out.
FetchEval(w) ==
  /\ pc[w] = "fetch"
  /\ \E resp \in Responses :
       LET r == Outcome(engines[eidx[w]], names[task[w]], resp.status, resp.data)
       IN  IF r.raised
           THEN /\ Finish(w, "raised")
                /\ UNCHANGED <<out, eidx>>
           ELSE /\ out' = [out EXCEPT ![w] = Fold(@, engines[eidx[w]].id, r)]
                /\ eidx' = [eidx EXCEPT ![w] = @ + 1]
                /\ pc' = [pc EXCEPT ![w] = "loop"]
                /\ UNCHANGED <<futs, task>>
  /\ UNCHANGED <<rows, engines, environ, mainpc, names, queue, consumed, results,
                 output, now, wake, lim, TH_LOCK, TH_TIMES, clock, ticks, log, evals,
                 unitvars>>

\* check_one, line 187: the loop is over and out is returned.
Return(w) ==
  /\ pc[w] = "loop"
  /\ eidx[w] > Len(engines)
  /\ Finish(w, "done")
  /\ UNCHANGED <<rows, engines, environ, mainpc, names, queue, consumed, results,
                 output, eidx, out, now, wake, lim, TH_LOCK, TH_TIMES, clock, ticks,
                 log, evals, unitvars>>

----------------------------------------------------------------------------
(* main, lines 225-235.                                                    *)

\* as_completed yields a finished future, whichever; fut.result() returns the
\* record or raises the task's exception, which leaves main.
Collect(t) ==
  /\ mainpc = "collect"
  /\ t \in DOMAIN futs
  /\ t \notin consumed
  /\ futs[t].st # "pending"
  /\ consumed' = consumed \cup {t}
  /\ IF futs[t].st = "raised"
     THEN /\ mainpc' = "aborted"
          /\ UNCHANGED results
     ELSE /\ results' = Append(results, futs[t].res)
          /\ mainpc' = IF consumed' = DOMAIN futs THEN "sort" ELSE "collect"
  /\ UNCHANGED <<rows, engines, environ, names, queue, futs, output, pc, task, eidx,
                 out, now, wake, lim, TH_LOCK, TH_TIMES, clock, ticks, log, evals,
                 unitvars>>

\* results.sort(...) and write_results(...)
SortWrite ==
  /\ mainpc = "sort"
  /\ results' = SortResults(results)
  /\ output' = results'
  /\ mainpc' = "done"
  /\ UNCHANGED <<rows, engines, environ, names, queue, futs, consumed, pc, task, eidx,
                 out, now, wake, lim, TH_LOCK, TH_TIMES, clock, ticks, log, evals,
                 unitvars>>

----------------------------------------------------------------------------
(* Time passes: by a tick, or by a minute and a second.  Only throttle     *)
(* reads the clock, so time is let pass where a thread is about to read.   *)

TickSteps == {EPS, 61 * SEC}

ReadsClock(w) == (pc[w] = "th_lock" /\ TH_LOCK = 0) \/ pc[w] = "th_record"

Tick(d) ==
  /\ \E w \in Workers : ReadsClock(w)
  /\ ticks < MaxTicks
  /\ ticks' = ticks + 1
  /\ clock' = clock + d
  /\ UNCHANGED <<rows, engines, environ, mainpc, names, queue, futs, consumed, results,
                 output, pc, task, eidx, out, now, wake, lim, TH_LOCK, TH_TIMES, log,
                 evals, unitvars>>

Next ==
  \/ MainStart
  \/ \E w \in Workers : TakeTask(w)
  \/ \E w \in Workers : EngineBegin(w)
  \/ \E w \in Workers : ThrottleEnter(w)
  \/ \E w \in Workers : ThrottleWake(w)
  \/ \E w \in Workers : ThrottleRecord(w)
  \/ \E w \in Workers : FetchEval(w)
  \/ \E w \in Workers : Return(w)
  \/ \E t \in 1..Len(names) : Collect(t)
  \/ SortWrite
  \/ \E d \in TickSteps : Tick(d)

Spec == Init /\ [][Next]_vars

----------------------------------------------------------------------------
(* One call of run_engine's evaluation on a stubbed fetch, and the fold of *)
(* its outcome: the inputs are drawn from sets of descriptors, queries and *)
(* documents.                                                              *)

MaxItems == 2
MaxUrlItems == 15

\* "bar", "Foo", "a_b"
Queries == { <<98, 97, 114>>, <<70, 111, 111>>, <<97, 95, 98>> }

\* "Bar", "foo", "a-b"
NameVals == { JStr(<<66, 97, 114>>), JStr(<<102, 111, 111>>), JStr(<<97, 45, 98>>) }
\* "x", null
OwnerVals == { JStr(<<120>>), JNone }

ItemOf(has_name, name, has_owner, owner) ==
  JDict((IF has_name THEN <<Entry("name", name)>> ELSE <<>>)
        \o (IF has_owner THEN <<Entry("owner", owner)>> ELSE <<>>))

ItemSet ==
  { ItemOf(hn, nv, ho, ov) :
      hn \in BOOLEAN, nv \in NameVals, ho \in BOOLEAN, ov \in OwnerVals }

ItemLists == UNION { [1..n -> ItemSet] : n \in 0..MaxItems }

MatchDoc(items) ==
  JDict(<<Entry("total_count", JNum(Len(items))), Entry("items", JList(items))>>)

\* The i-th URL candidate: every (k+1)-th one falsy ("", 0 or null) when
\* k > 0, the others a string "u<i>" or the number i.
UrlVal(i, k) ==
  IF k > 0 /\ i % (k + 1) = 0
  THEN (CASE i % 3 = 0 -> JStr(<<>>) [] i % 3 = 1 -> JNum(0) [] OTHER -> JNone)
  ELSE IF i % 2 = 0 THEN JNum(i) ELSE JStr(<<117>> \o Digits(i))

UrlDoc(n, k) ==
  JDict(<<Entry("total_count",
                CASE k = 1 -> JStr(Digits(n)) [] k = 2 -> JStr(<<120>>) [] OTHER -> JNum(n)),
          Entry("items",
                JList([i \in 1..n |->
                         JDict(<<Entry("name", JStr(<<102, 111, 111>>)),
                                 Entry("html_url", UrlVal(i, k))>>)]))>>)

UnitResponses ==
  { TransportFailure, Response(404, JNone), Response(200, JStr(<<98, 97, 114>>)),
    Response(200, JNum(7)) }
  \cup { Response(200, MatchDoc(items)) : items \in ItemLists }
  \cup { Response(200, JList(items)) : items \in ItemLists }
  \cup { Response(200, UrlDoc(n, k)) : n \in 0..MaxUrlItems, k \in 0..3 }

Lowered == Normalize(TRUE, FALSE)
Plain   == Normalize(FALSE, FALSE)

UnitRules ==
  { NoExists, StatusIs(200), StatusIs(0), StatusIs(Absent),
    AnyEqRule(ItemsName, Normalize(TRUE, TRUE)),
    AnyEqRule(PathOf(<<Seg("", TRUE), Seg("name", FALSE)>>), Lowered),
    AnyEqRule(NoPath, Plain),
    ExistsRule("json_any_match", Absent, NoPath, Plain, FALSE, <<>>),
    AnyMatchRule(<<Crit(ItemsName, EqQuery, Lowered)>>),
    AnyMatchRule(<<Crit(ItemsName, EqQuery, Lowered),
                   Crit(ItemsOwner, EqLit(<<120>>), Plain)>>),
    AnyMatchRule(<<Crit(ItemsName, EqQuery, Lowered),
                   Crit(ItemsOwner, EqMissing, Plain)>>),
    AnyMatchRule(<<Crit(ItemsOwner, EqLit(<<>>), Plain),
                   Crit(ItemsName, EqLit(<<66, 97, 114>>), Plain)>>) }

UnitEngines ==
  { Engine("github", NoThrottle, ex, GithubResult) : ex \in UnitRules }
  \cup { Engine("pypi", NoThrottle, ex, ResultRule(RootPath, NoPath, NoPath)) :
           ex \in UnitRules }

\* The program's state where only run_engine's evaluation is exercised.
ProgOff ==
  /\ rows = <<>>
  /\ engines = <<>>
  /\ environ \in {[v \in {BYPASS_VAR} |-> UnsetVar]}
  /\ ProgStart

InitOutcome ==
  /\ ProgOff
  /\ u_engine \in UnitEngines
  /\ u_query \in Queries
  /\ u_resp \in UnitResponses
  /\ u_pc = "call"
  /\ u_out = NoOut
  /\ u_res = NewResult(u_query)

\* run_engine from the fetcher's answer on: it returns the outcome or raises.
UnitCall ==
  /\ u_pc = "call"
  /\ u_out' = Outcome(u_engine, u_query, u_resp.status, u_resp.data)
  /\ u_pc' = IF u_out'.raised THEN "raised" ELSE "returned"
  /\ UNCHANGED <<progvars, u_engine, u_query, u_resp, u_res>>

\* check_one's fold of the outcome into the name's record.
UnitFold ==
  /\ u_pc = "returned"
  /\ u_res' = Fold(u_res, u_engine.id, u_out)
  /\ u_pc' = "folded"
  /\ UNCHANGED <<progvars, u_engine, u_query, u_resp, u_out>>

NextOutcome == UnitCall \/ UnitFold

SpecOutcome == InitOutcome /\ [][NextOutcome]_vars

----------------------------------------------------------------------------
(* The claims.                                                             *)

\* The throttle calls of the log that lie in the trailing window of call k,
\* call k among them.
InWindow(k) == {j \in 1..k : log[k].ts - log[j].ts <= WINDOW}

\* C1: whenever a throttled call of limit max_per_minute records its
\* timestamp, at most max_per_minute recorded timestamps, the new one
\* counted, lie within the trailing 60 seconds -- whatever limits the other
\* callers of the shared queue pass.
C1_WindowWithinLimit ==
  \A k \in 1..Len(log) :
    log[k].limit >= 1 => Cardinality(InWindow(k)) <= log[k].limit

\* The first n recorded calls all passed the limit m.
SameLimit(n, m) == n <= Len(log) /\ \A j \in 1..n : log[j].limit = m

\* Call k came at least 61 seconds after every earlier timestamp.
Spaced(k) == \A j \in 1..(k - 1) : log[k].now >= log[j].ts + 61 * SEC

\* C2: from an empty window and with one limit m >= 1, the first m calls
\* record without sleeping and call m+1 records no earlier than 60 seconds
\* after the first call's timestamp; a call that comes 61 seconds after the
\* earlier ones finds them all evicted and does not sleep.
C2_BurstDelayedSpacedNot ==
  \A k \in 1..Len(log) :
    LET m == log[1].limit
    IN  (m >= 1 /\ SameLimit(k, m)) =>
          /\ k <= m => ~log[k].slept
          /\ k = m + 1 => log[k].ts >= log[1].ts + WINDOW
          /\ Spaced(k) => (log[k].seen = 0 /\ ~log[k].slept)

\* C2's case: limit 2, the third call came within the window of the first and
\* slept past it, and a fourth call, 61 seconds later, did not sleep.
C2_Witness ==
  /\ SameLimit(4, 2)
  /\ log[3].now < log[1].ts + WINDOW
  /\ log[3].slept
  /\ ~log[1].slept /\ ~log[2].slept
  /\ Spaced(4)
  /\ ~log[4].slept

\* C3: run_engine never raises: no task's future ends with an exception.
C3_NeverRaises == \A t \in DOMAIN futs : futs[t].st # "raised"

\* C4: the batch is never aborted, and when it is done the output holds
\* exactly one record for every name of the deduplicated list.
C4_BatchCompletes ==
  /\ mainpc # "aborted"
  /\ mainpc = "done" =>
       /\ Len(output) = Len(names)
       /\ \A i \in 1..Len(names) :
            Cardinality({j \in 1..Len(output) : output[j].name = names[i]}) = 1

OutputNames == [i \in 1..Len(output) |-> output[i].name]

\* The order the output has when the tasks complete in dispatch order.
DispatchOrderOutput ==
  LET sorted == SortResults([i \in 1..Len(names) |-> NewResult(names[i])])
  IN  [i \in 1..Len(sorted) |-> sorted[i].name]

\* C5: the output order is the same for every completion order of the
\* tasks (so it is the order that completion in dispatch order gives), and
\* it is ordered by case-insensitive name.
C5_OutputOrderDeterministic ==
  mainpc = "done" =>
    /\ OutputNames = DispatchOrderOutput
    /\ \A i \in 1..(Len(output) - 1) :
         ~StrLess(Lower(output[i + 1].name), Lower(output[i].name))

Defaults(status) == Out(FALSE, FALSE, 0, FALSE, <<>>, status)

\* C6: on a transport failure (status 0, no document) the outcome returned
\* has exists false, count 0, exact false, no urls and status 0, whatever
\* the descriptor.
C6_TransportFailureDefaults ==
  (u_pc \in {"returned", "folded"} /\ u_resp = TransportFailure) => u_out = Defaults(0)

InThrottle(w) == pc[w] \in {"th_lock", "th_sleep", "th_record"}

\* The throttle calls recorded for engine i of task t.
Recorded(t, i) == {k \in 1..Len(log) : log[k].task = t /\ log[k].eidx = i}

\* C7: for an engine whose throttle names a bypass variable: while the
\* variable is set, whatever its value, no thread is in throttle for that
\* engine; while it is not set, the thread that reaches the fetch has called
\* throttle exactly once, with the configured limit or 9.
C7_BypassWhenSet ==
  \A w \in Workers :
    (task[w] # 0 /\ eidx[w] \in 1..Len(engines)) =>
      LET th == engines[eidx[w]].throttle
      IN  (th.on /\ th.env_bypass # "") =>
            /\ environ[th.env_bypass].set => ~InThrottle(w)
            /\ (~environ[th.env_bypass].set /\ pc[w] = "fetch") =>
                 /\ Cardinality(Recorded(task[w], eidx[w])) = 1
                 /\ \A k \in Recorded(task[w], eidx[w]) :
                      log[k].limit =
                        (IF th.max_per_minute = Absent THEN 9 ELSE th.max_per_minute)

\* The fields of the result record that the engine id is mapped to.
MappedFields(eid) ==
  CASE eid = "pypi" -> {"pypi"}
    [] eid = "conda_forge" -> {"conda_forge"}
    [] eid = "anaconda_any" -> {"anaconda_any"}
    [] eid = "github" -> {"github_count", "github_exact", "github_top_urls"}
    [] OTHER -> {}

ResultFields ==
  {"name", "pypi", "conda_forge", "anaconda_any", "github_count", "github_exact",
   "github_top_urls"}

\* Engines are evaluated one after another in list order, each once; the
\* result that is returned has every engine evaluated, every throttled one
\* (of a known id or not) with its timestamp recorded, and the fixed fields.
C8_Order ==
  \A t \in DOMAIN futs :
    /\ evals[t] = [i \in 1..Len(evals[t]) |-> i]
    /\ DOMAIN futs[t].res = ResultFields
    /\ futs[t].st = "done" =>
         /\ Len(evals[t]) = Len(engines)
         /\ \A i \in 1..Len(engines) :
              Cardinality(Recorded(t, i)) =
                (IF Throttled(engines[i].throttle, environ) THEN 1 ELSE 0)

\* A step of a task changes only the fields its current engine's id is
\* mapped to.
C8_Frame ==
  \A w \in Workers :
    (task[w] # 0 /\ task'[w] = task[w]) =>
      \A f \in ResultFields :
        out'[w][f] # out[w][f] => f \in MappedFields(engines[eidx[w]].id)

\* C8: check_one evaluates every engine exactly once, in list order; each
\* evaluation changes only the fields mapped to the engine's id; an engine
\* of an unrecognized id is evaluated, its throttle timestamp recorded, and
\* changes nothing.
C8_SequentialFold == [](C8_Order) /\ [][C8_Frame]_vars

\* C8's case: a task returned after an engine of an unknown id, throttled and
\* recorded, and a pypi engine that set its field.
C8_Witness ==
  /\ engines = <<Gitlab, Pypi>>
  /\ \E t \in DOMAIN futs :
       /\ futs[t].st = "done"
       /\ futs[t].res.pypi
       /\ Cardinality(Recorded(t, 1)) = 1

\* The positions of the truthy values of vals, and the j-th of them.
TruthyAt(vals) == {i \in 1..Len(vals) : Truthy(vals[i])}
NthTruthy(vals, j) ==
  CHOOSE i \in TruthyAt(vals) : Cardinality({h \in TruthyAt(vals) : h <= i}) = j

\* C9: the urls of an outcome, and of the name's record, are at most 10:
\* the first min(10, n) of the n non-falsy values at urls_path, stringified,
\* in their order.
C9_UrlsFirstTen ==
  (u_pc \in {"returned", "folded"}) =>
    LET vals == IF u_engine.result.urls_path.set /\ IsListOrDict(u_resp.data)
                THEN JsonRead(u_resp.data, u_engine.result.urls_path) ELSE <<>>
        n    == Cardinality(TruthyAt(vals))
    IN  /\ Len(u_out.urls) = (IF n < 10 THEN n ELSE 10)
        /\ \A j \in 1..Len(u_out.urls) : u_out.urls[j] = Str(vals[NthTruthy(vals, j)])
        /\ Len(u_res.github_top_urls) <= 10
        /\ (u_pc = "folded" /\ u_engine.id = "github") => u_res.github_top_urls = u_out.urls

\* C9's case: 15 candidates, none falsy, give the first 10.
C9_Witness ==
  /\ u_pc = "folded"
  /\ u_engine.id = "github"
  /\ Cardinality(TruthyAt(JsonRead(u_resp.data, ItemsUrl))) = 15
  /\ Len(u_res.github_top_urls) = 10

\* exists as the rule is stated: some index has every criterion present and
\* equal to its target.
StatedAnyMatch(ex, query, data) ==
  LET cols == [k \in 1..Len(ex.where) |-> JsonRead(data, ex.where[k].path)]
  IN  \E i \in 0..(MaxLen(cols) - 1) :
        \A k \in 1..Len(ex.where) :
          /\ i < Len(cols[k])
          /\ Norm(cols[k][i + 1], ex.where[k].normalize) = Target(ex.where[k], query)

\* C10: for json_any_match, exists is true iff some index below the longest
\* column satisfies every criterion, a criterion whose column ends before
\* that index never matching there, whatever its target.
C10_AbsentNeverMatches ==
  (/\ u_pc \in {"returned", "folded"}
   /\ u_engine.exists.kind = "json_any_match"
   /\ IsListOrDict(u_resp.data)) =>
    (u_out.exists <=> StatedAnyMatch(u_engine.exists, u_query, u_resp.data))

====
